---- MODULE Spec2Model ----
(***************************************************************************)
(* Model of the docling-serve notification subsystem:                      *)
(*   HttpNotifier   (src/docling_serve/http_notifier.py)                    *)
(*   MultiNotifier  (src/docling_serve/notifier.py)                         *)
(*   WebhookConfig  (src/docling_serve/datamodel/webhook.py)                *)
(*                                                                         *)
(* asyncio runs coroutines cooperatively on one thread: the code between   *)
(* two awaits is one atomic step, and each await of an external awaitable  *)
(* (orchestrator.task_status, client.request, asyncio.sleep) is a point    *)
(* where any other coroutine may run.                                      *)
(***************************************************************************)
EXTENDS Integers, Sequences, FiniteSets, TLC

(* ------------------------------ bounds --------------------------------- *)
MaxSeqs    == 2   \* delivery sequences created in one behaviour
MaxTime    == 1   \* the clock runs over 0..MaxTime
MaxRetries == 2   \* WebhookConfig.max_retries ranges over 0..MaxRetries
MaxBackoff == 2   \* WebhookConfig.backoff_factor ranges over 0..MaxBackoff

(* --------------------------- program constants ------------------------- *)
Exc == -1          \* client.request raised instead of returning a response

Tasks     == {"t1", "t2"}
DirectCalls == {"c1", "c2"}          \* notify calls made directly on the HttpNotifier
MultiCall == "m"                     \* the HttpNotifier hook run by MultiNotifier's gather
Calls     == DirectCalls \cup {MultiCall}
Statuses  == {"pending", "success", "failure"}
Responses == {Exc, 200, 299, 300, 500}
LifecycleResponses == {200, 500}         \* the responses the lifecycle specification draws
LifecycleStatuses == {"pending", "success"}
LifecycleTasks == {"t1"}             \* the tasks the lifecycle specification drives
Hooks == {"add_task", "remove_task", "notify_task_subscribers", "notify_queue_positions"}

VARIABLES
    webhook_configs,  \* HttpNotifier._webhook_configs : dict task_id -> WebhookConfig
    dispatched,       \* HttpNotifier._dispatched : set of task ids
    status,           \* the orchestrator's task_status of each task
    now,              \* int(time.time())
    calls,            \* the notify_task_subscribers coroutines of the HttpNotifier
    seqs,             \* the _dispatch coroutines created by asyncio.create_task, in creation order
    started,          \* history: sequences created for a task since its last add_task/remove_task
    overlap,          \* history: two notify calls of a task were suspended in the lookup together
    last,             \* history: the task and the exit of the latest notify_task_subscribers step
    multi,            \* the MultiNotifier hook in progress and its gathered backend hooks
    validation        \* the validate_webhook_url call: its arguments and its outcome

vars == <<webhook_configs, dispatched, status, now, calls, seqs, started, overlap, last, multi,
          validation>>

(* ------------------------------ WebhookConfig -------------------------- *)
\* An Optional[T] value is a sequence of length 0 (None) or 1.
None == <<>>
Some(v) == <<v>>

\* A header value: a plain string, or the hex digest of an HMAC (kept symbolic in mac).
Plain(s) == [text |-> s, mac |-> <<>>]

Methods == {"POST", "PUT", "PATCH"}
Secrets == {None, Some(""), Some("abc")}

NoHeaders == [k \in {} |-> Plain("")]
CustomHeaders ==
    { NoHeaders,
      [k \in {"X-Trace"} |-> Plain("abc")],
      [k \in {"Content-Type"} |-> Plain("text/plain")],
      [k \in {"X-Docling-Timestamp", "X-Docling-Signature"} |-> Plain("custom")] }

WebhookConfig ==
    [url : {"https://hook.example/cb"}, method : Methods, secret : Secrets,
     headers : CustomHeaders, max_retries : 0..MaxRetries, backoff_factor : 0..MaxBackoff]

\* The configurations the lifecycle specification registers.
LifecycleConfigs ==
    { [url |-> "https://hook.example/cb", method |-> "POST", secret |-> None,
       headers |-> NoHeaders, max_retries |-> 0, backoff_factor |-> 1],
      [url |-> "https://hook.example/cb", method |-> "PUT", secret |-> Some("abc"),
       headers |-> [k \in {"X-Trace"} |-> Plain("abc")], max_retries |-> 1, backoff_factor |-> 1] }

(* ------------------------------ helpers -------------------------------- *)
Max(a, b) == IF a >= b THEN a ELSE b

RECURSIVE Pow2(_)
Pow2(n) == IF n = 0 THEN 1 ELSE 2 * Pow2(n - 1)

Digit(d) == CASE d = 0 -> "0" [] d = 1 -> "1" [] d = 2 -> "2" [] d = 3 -> "3" [] d = 4 -> "4"
              [] d = 5 -> "5" [] d = 6 -> "6" [] d = 7 -> "7" [] d = 8 -> "8" [] d = 9 -> "9"

\* str(n) for a natural number n
RECURSIVE Str(_)
Str(n) == IF n < 10 THEN Digit(n) ELSE Str(n \div 10) \o Digit(n % 10)

\* d[k] = v on a dict
DictSet(d, k, v) == [x \in DOMAIN d \cup {k} |-> IF x = k THEN v ELSE d[x]]
\* {**a, **b}: the keys of b win
DictMerge(a, b) == [x \in DOMAIN a \cup DOMAIN b |-> IF x \in DOMAIN b THEN b[x] ELSE a[x]]
\* d.pop(k, None)
DictPop(d, k) == [x \in DOMAIN d \ {k} |-> d[x]]

IsCompleted(s) == s \in {"success", "failure"}

\* _build_payload
BuildPayload(task_id) == [task_id |-> task_id, status |-> status[task_id]]

\* json.dumps(payload)
JsonDumps(payload) == <<"{task_id:", payload.task_id, "status:", payload.status, "}">>

\* hmac.new(secret, f"{timestamp}.{body}", sha256).hexdigest()
HmacHex(secret, timestamp, body) ==
    [text |-> "hexdigest", mac |-> <<secret, timestamp, ".", body>>]

\* `if config.secret:` -- None and the empty string are falsy
SecretSet(config) == config.secret # None /\ config.secret[1] # ""

\* lines 80-89: the headers of the request
BuildHeaders(config, timestamp, body) ==
    LET base == DictMerge([k \in {"Content-Type"} |-> Plain("application/json")],
                          config.headers)
        signed == IF SecretSet(config)
                  THEN DictSet(base, "X-Docling-Signature",
                               HmacHex(config.secret[1], timestamp, body))
                  ELSE base
    IN DictSet(signed, "X-Docling-Timestamp", Plain(timestamp))

\* mutant of Attempts: max_retries taken as the total number of attempts
Attempts_AsTotal(config) == Max(config.max_retries, 1)

\* line 91
Attempts(config) == Max(config.max_retries, 0) + 1
\* line 92
Backoff(config) == Max(config.backoff_factor, 0)
\* mutant of SleepFor: the exponent counts attempts from one
SleepFor_OneBasedExponent(config, attempt) == Backoff(config) * Pow2(attempt + 1)

\* line 119
SleepFor(config, attempt) == Backoff(config) * Pow2(attempt)

IdleCall == [pc |-> "idle", id |-> "t1", config |-> None]
IdleMulti == [pc |-> "idle", hook |-> "none", id |-> "t1", http |-> "idle", other |-> "idle"]

\* the coroutine object asyncio.create_task(self._dispatch(task_id, config, payload)) schedules
NewSeq(task_id, config, payload) ==
    [task |-> task_id, config |-> config, payload |-> payload,
     pc |-> "created", attempt |-> 0, timestamp |-> "", body |-> <<>>,
     headers |-> NoHeaders, sent |-> <<>>, outcomes |-> <<>>, sleeps |-> <<>>]

InLookup(id) == {c \in Calls : calls[c].pc = "lookup" /\ calls[c].id = id}
Suspended == {c \in Calls : calls[c].pc = "lookup"}

(* ------------------------------ validate_webhook_url -------------------- *)
Urls == { "https://hook.example/cb", "http://hook.example/cb", "HTTPS://Hook.Example/cb",
          "https://evil.test/", "ftp://files.example/x", "hook.example/cb" }
\* the URLs an AnyHttpUrl field accepts (WebhookOverride.url)
HttpUrls == { "https://hook.example/cb", "http://hook.example/cb", "HTTPS://Hook.Example/cb",
              "https://evil.test/" }
AllowedSchemes == SUBSET {"https", "http"}
AllowedHosts == SUBSET {"hook.example", "Hook.Example"}

\* urlparse(str(url)): scheme and hostname are lower-cased; a URL without `scheme://` has
\* the empty scheme and no hostname (None)
Urlparse(url) ==
    CASE url = "https://hook.example/cb" -> [scheme |-> "https", hostname |-> Some("hook.example")]
      [] url = "http://hook.example/cb"  -> [scheme |-> "http", hostname |-> Some("hook.example")]
      [] url = "HTTPS://Hook.Example/cb" -> [scheme |-> "https", hostname |-> Some("hook.example")]
      [] url = "https://evil.test/"      -> [scheme |-> "https", hostname |-> Some("evil.test")]
      [] url = "ftp://files.example/x"   -> [scheme |-> "ftp", hostname |-> Some("files.example")]
      [] url = "hook.example/cb"         -> [scheme |-> "", hostname |-> None]

\* `x not in allowed` for an Optional[str] x and a list of strings
NotIn(x, allowed) == x = None \/ x[1] \notin allowed

\* mutant of ValidateWebhookUrl: an empty allow-list allows nothing
ValidateWebhookUrl_NoEmptyListGuard(url, allowed_hosts, allowed_schemes) ==
    LET parsed == Urlparse(url) IN
    IF parsed.scheme \notin allowed_schemes THEN "scheme_not_allowed"
    ELSE IF NotIn(parsed.hostname, allowed_hosts) THEN "host_not_allowed"
    ELSE "ok"

\* validate_webhook_url: "ok" when it returns, else the ValueError it raises
ValidateWebhookUrl(url, allowed_hosts, allowed_schemes) ==
    LET parsed == Urlparse(url) IN
    IF allowed_schemes # {} /\ parsed.scheme \notin allowed_schemes THEN "scheme_not_allowed"
    ELSE IF allowed_hosts # {} /\ NotIn(parsed.hostname, allowed_hosts) THEN "host_not_allowed"
    ELSE "ok"

NoValidation ==
    [pc |-> "idle", url |-> "", allowed_hosts |-> {}, allowed_schemes |-> {}, result |-> ""]

(* ------------------------------ Init ----------------------------------- *)
Init ==
    /\ webhook_configs = [t \in {} |-> None]
    /\ dispatched = {}
    /\ status = [t \in Tasks |-> "pending"]
    /\ now = 0
    /\ calls = [c \in Calls |-> IdleCall]
    /\ seqs = <<>>
    /\ started = [t \in Tasks |-> 0]
    /\ overlap = [t \in Tasks |-> FALSE]
    /\ last = [id |-> "t1", exit |-> "none", via |-> "direct"]
    /\ multi = IdleMulti
    /\ validation = NoValidation

(* --------------------- HttpNotifier: lifecycle hooks ------------------- *)
\* history kept beside add_task/remove_task: a new period of the task id begins
NewPeriod(id) ==
    /\ started' = [started EXCEPT ![id] = 0]
    /\ overlap' = [overlap EXCEPT ![id] = Cardinality(InLookup(id)) >= 2]

\* mutant of AddTask: the dispatched set is cleared
AddTask_ClearsAll(id) ==
    /\ dispatched' = {}
    /\ NewPeriod(id)
    /\ UNCHANGED <<webhook_configs, status, now, validation, calls, seqs, last>>

\* HttpNotifier.add_task
AddTask(id) ==
    /\ dispatched' = dispatched \ {id}
    /\ NewPeriod(id)
    /\ UNCHANGED <<webhook_configs, status, now, validation, calls, seqs, last>>

\* HttpNotifier.remove_task
RemoveTask(id) ==
    /\ webhook_configs' = DictPop(webhook_configs, id)
    /\ dispatched' = dispatched \ {id}
    /\ NewPeriod(id)
    /\ UNCHANGED <<status, now, validation, calls, seqs, last>>

\* mutant of RegisterWebhook: the map is replaced by the one registration
RegisterWebhook_ReplacesAll(id, config) ==
    /\ webhook_configs' = IF config = None THEN webhook_configs
                          ELSE [x \in {id} |-> config[1]]
    /\ UNCHANGED <<dispatched, status, now, validation, calls, seqs, started, overlap, last>>

\* HttpNotifier.register_webhook(task_id, config), config an Optional[WebhookConfig]
RegisterWebhook(id, config) ==
    /\ webhook_configs' = IF config = None THEN webhook_configs
                          ELSE DictSet(webhook_configs, id, config[1])
    /\ UNCHANGED <<dispatched, status, now, validation, calls, seqs, started, overlap, last>>

\* HttpNotifier.notify_queue_positions
NotifyQueuePositions ==
    UNCHANGED <<webhook_configs, dispatched, status, now, validation, calls, seqs, started, overlap, last>>

\* history: the way a notify_task_subscribers call of coroutine c ended
Exit(c, id, how) ==
    [id |-> id, exit |-> how, via |-> IF c = MultiCall THEN "multi" ELSE "direct"]

\* mutant of SkipNotify: the dispatched marker is not consulted
SkipNotify_ConfigOnly(id) == id \notin DOMAIN webhook_configs

\* line 37: `config is None or task_id in self._dispatched`
SkipNotify(id) == id \notin DOMAIN webhook_configs \/ id \in dispatched

\* mutant of NotifyEnter: the lookup is awaited before the configuration is tested
NotifyEnter_LookupWithoutConfig(c, id) ==
    /\ calls[c].pc = "idle"
    /\ IF id \in dispatched
       THEN /\ last' = Exit(c, id, "already_dispatched")
            /\ UNCHANGED <<calls, overlap>>
       ELSE /\ Len(seqs) + Cardinality(Suspended) < MaxSeqs
            /\ calls' = [calls EXCEPT ![c] =
                           [pc |-> "lookup", id |-> id,
                            config |-> IF id \in DOMAIN webhook_configs
                                       THEN Some(webhook_configs[id]) ELSE None]]
            /\ overlap' = [overlap EXCEPT ![id] = @ \/ InLookup(id) # {}]
            /\ UNCHANGED last
    /\ UNCHANGED <<webhook_configs, dispatched, status, now, validation, seqs, started>>

\* notify_task_subscribers up to its first await (lines 36-41)
NotifyEnter(c, id) ==
    /\ calls[c].pc = "idle"
    /\ IF SkipNotify(id)
       THEN /\ last' = Exit(c, id, IF id \in DOMAIN webhook_configs
                                       THEN "already_dispatched" ELSE "no_config")
            /\ UNCHANGED <<calls, overlap>>
       ELSE /\ Len(seqs) + Cardinality(Suspended) < MaxSeqs
            /\ calls' = [calls EXCEPT ![c] =
                           [pc |-> "lookup", id |-> id, config |-> Some(webhook_configs[id])]]
            /\ overlap' = [overlap EXCEPT ![id] = @ \/ InLookup(id) # {}]
            /\ UNCHANGED last
    /\ UNCHANGED <<webhook_configs, dispatched, status, now, validation, seqs, started>>

\* a notify_task_subscribers call made directly on the HttpNotifier
NotifyBegin(c, id) ==
    /\ c \in DirectCalls
    /\ NotifyEnter(c, id)
    /\ UNCHANGED multi

\* the gathered hook of the call has finished (MultiNotifier sees its future done)
HookDone(c) ==
    multi' = IF c = MultiCall THEN [multi EXCEPT !.http = "done"] ELSE multi

\* mutant of NotifyLookupFailed: the task is marked dispatched although the lookup raised
NotifyLookupFailed_MarksDispatched(c) ==
    /\ calls[c].pc = "lookup"
    /\ dispatched' = dispatched \cup {calls[c].id}
    /\ calls' = [calls EXCEPT ![c] = IdleCall]
    /\ last' = Exit(c, calls[c].id, "lookup_failed")
    /\ HookDone(c)
    /\ UNCHANGED <<webhook_configs, status, now, validation, seqs, started, overlap>>

\* lines 42-44: orchestrator.task_status raised
NotifyLookupFailed(c) ==
    /\ calls[c].pc = "lookup"
    /\ calls' = [calls EXCEPT ![c] = IdleCall]
    /\ last' = Exit(c, calls[c].id, "lookup_failed")
    /\ HookDone(c)
    /\ UNCHANGED <<webhook_configs, dispatched, status, now, validation, seqs, started, overlap>>

\* mutant of NotifyNotCompleted: the task is marked dispatched before is_completed is tested
NotifyNotCompleted_MarksDispatched(c) ==
    /\ calls[c].pc = "lookup"
    /\ ~IsCompleted(status[calls[c].id])
    /\ dispatched' = dispatched \cup {calls[c].id}
    /\ calls' = [calls EXCEPT ![c] = IdleCall]
    /\ last' = Exit(c, calls[c].id, "not_completed")
    /\ HookDone(c)
    /\ UNCHANGED <<webhook_configs, status, now, validation, seqs, started, overlap>>

\* lines 46-47: the task is not completed
NotifyNotCompleted(c) ==
    /\ calls[c].pc = "lookup"
    /\ ~IsCompleted(status[calls[c].id])
    /\ calls' = [calls EXCEPT ![c] = IdleCall]
    /\ last' = Exit(c, calls[c].id, "not_completed")
    /\ HookDone(c)
    /\ UNCHANGED <<webhook_configs, dispatched, status, now, validation, seqs, started, overlap>>

\* mutant of NotifyDispatch: `await self._dispatch(...)` in place of asyncio.create_task
NotifyDispatch_AwaitsDelivery(c) ==
    /\ calls[c].pc = "lookup"
    /\ IsCompleted(status[calls[c].id])
    /\ LET id == calls[c].id IN
       /\ dispatched' = dispatched \cup {id}
       /\ seqs' = Append(seqs, NewSeq(id, calls[c].config[1], BuildPayload(id)))
       /\ started' = [started EXCEPT ![id] = @ + 1]
    /\ calls' = [calls EXCEPT ![c].pc = "delivering"]
    /\ UNCHANGED <<webhook_configs, status, now, validation, overlap, last, multi>>

\* lines 49-51: payload, mark dispatched, create the _dispatch task, return
NotifyDispatch(c) ==
    /\ calls[c].pc = "lookup"
    /\ IsCompleted(status[calls[c].id])
    /\ LET id == calls[c].id IN
       /\ dispatched' = dispatched \cup {id}
       /\ seqs' = Append(seqs, NewSeq(id, calls[c].config[1], BuildPayload(id)))
       /\ started' = [started EXCEPT ![id] = @ + 1]
    /\ calls' = [calls EXCEPT ![c] = IdleCall]
    /\ last' = Exit(c, calls[c].id, "dispatched")
    /\ HookDone(c)
    /\ UNCHANGED <<webhook_configs, status, now, validation, overlap>>

\* notify_task_subscribers from the return of the await on (lines 41-51)
NotifyResume(c) ==
    \/ NotifyLookupFailed(c)
    \/ NotifyNotCompleted(c)
    \/ NotifyDispatch(c)

(* --------------------- HttpNotifier._dispatch -------------------------- *)
\* the arguments of client.request (lines 97-103)
Request(s) ==
    [method |-> s.config.method, url |-> s.config.url, content |-> s.body,
     headers |-> s.headers, timeout |-> 10]

\* lines 80-97: the coroutine runs up to the await of its first request
DispatchStart(i) ==
    /\ i \in 1..Len(seqs)
    /\ seqs[i].pc = "created"
    /\ LET s == seqs[i]
           timestamp == Str(now)
           body == JsonDumps(s.payload)
           t == [s EXCEPT !.timestamp = timestamp, !.body = body,
                          !.headers = BuildHeaders(s.config, timestamp, body),
                          !.attempt = 0, !.pc = "awaiting"]
       IN seqs' = [seqs EXCEPT ![i] = [t EXCEPT !.sent = <<Request(t)>>]]
    /\ UNCHANGED <<webhook_configs, dispatched, status, now, validation, calls, started, overlap, last, multi>>

\* line 104
IsSuccess(r) == r # Exc /\ 200 <= r /\ r < 300

\* line 118
MoreAttempts(s) == s.attempt < Attempts(s.config) - 1

\* mutant of HttpOutcome: a response is handled only when every earlier sequence has ended
HttpOutcome_InOrder(i, r) ==
    /\ i \in 1..Len(seqs)
    /\ seqs[i].pc = "awaiting"
    /\ \A j \in 1..(i - 1) : seqs[j].pc \in {"delivered", "exhausted"}
    /\ LET s == [seqs[i] EXCEPT !.outcomes = Append(@, r)] IN
       seqs' = [seqs EXCEPT ![i] =
                   IF IsSuccess(r) THEN [s EXCEPT !.pc = "delivered"]
                   ELSE IF MoreAttempts(s)
                        THEN [s EXCEPT !.pc = "sleeping",
                                       !.sleeps = Append(@, SleepFor(s.config, s.attempt))]
                        ELSE [s EXCEPT !.pc = "exhausted"]]
    /\ UNCHANGED <<webhook_configs, dispatched, status, now, validation, calls, started, overlap, last, multi>>

\* mutant of HttpOutcome: an exhausted sequence clears the dispatched marker of its task
HttpOutcome_ExhaustionClearsMarker(i, r) ==
    /\ i \in 1..Len(seqs)
    /\ seqs[i].pc = "awaiting"
    /\ LET s == [seqs[i] EXCEPT !.outcomes = Append(@, r)] IN
       /\ seqs' = [seqs EXCEPT ![i] =
                      IF IsSuccess(r) THEN [s EXCEPT !.pc = "delivered"]
                      ELSE IF MoreAttempts(s)
                           THEN [s EXCEPT !.pc = "sleeping",
                                          !.sleeps = Append(@, SleepFor(s.config, s.attempt))]
                           ELSE [s EXCEPT !.pc = "exhausted"]]
       /\ dispatched' = IF ~IsSuccess(r) /\ ~MoreAttempts(s)
                        THEN dispatched \ {s.task} ELSE dispatched
    /\ UNCHANGED <<webhook_configs, status, now, validation, calls, started, overlap, last, multi>>

\* lines 97-124: the request of attempt s.attempt ends with response r or raises (r = Exc)
HttpOutcome(i, r) ==
    /\ i \in 1..Len(seqs)
    /\ seqs[i].pc = "awaiting"
    /\ LET s == [seqs[i] EXCEPT !.outcomes = Append(@, r)] IN
       seqs' = [seqs EXCEPT ![i] =
                   IF IsSuccess(r) THEN [s EXCEPT !.pc = "delivered"]
                   ELSE IF MoreAttempts(s)
                        THEN [s EXCEPT !.pc = "sleeping",
                                       !.sleeps = Append(@, SleepFor(s.config, s.attempt))]
                        ELSE [s EXCEPT !.pc = "exhausted"]]
    /\ UNCHANGED <<webhook_configs, dispatched, status, now, validation, calls, started, overlap, last, multi>>

\* mutant of SleepDone: the timestamp and the headers are computed again for each attempt
SleepDone_RestampsRequest(i) ==
    /\ i \in 1..Len(seqs)
    /\ seqs[i].pc = "sleeping"
    /\ LET s == [seqs[i] EXCEPT !.attempt = @ + 1, !.pc = "awaiting",
                                !.timestamp = Str(now),
                                !.headers = BuildHeaders(seqs[i].config, Str(now), seqs[i].body)]
       IN seqs' = [seqs EXCEPT ![i] = [s EXCEPT !.sent = Append(@, Request(s))]]
    /\ UNCHANGED <<webhook_configs, dispatched, status, now, validation, calls, started, overlap, last, multi>>

\* lines 120, 95-97: asyncio.sleep returns, the loop issues the next request
SleepDone(i) ==
    /\ i \in 1..Len(seqs)
    /\ seqs[i].pc = "sleeping"
    /\ LET s == [seqs[i] EXCEPT !.attempt = @ + 1, !.pc = "awaiting"] IN
       seqs' = [seqs EXCEPT ![i] = [s EXCEPT !.sent = Append(@, Request(s))]]
    /\ UNCHANGED <<webhook_configs, dispatched, status, now, validation, calls, started, overlap, last, multi>>

(* ------------------------------ environment ---------------------------- *)
\* the orchestrator moves a task to another status (completion, resubmission)
SetStatus(id, s) ==
    /\ IsCompleted(status[id]) # IsCompleted(s)
    /\ status' = [status EXCEPT ![id] = s]
    /\ UNCHANGED <<webhook_configs, dispatched, now, validation, calls, seqs, started, overlap, last, multi>>

\* time.time() advances by a second
Tick ==
    /\ now < MaxTime
    /\ now' = now + 1
    /\ UNCHANGED <<webhook_configs, dispatched, status, calls, seqs, started, overlap, last, multi,
                   validation>>

(* ------------------------------ MultiNotifier -------------------------- *)
\* MultiNotifier(orchestrator, other, HttpNotifier): `other` is the second held backend
\* (a WebsocketNotifier); its hooks may suspend and may raise.
\* Each hook is `await asyncio.gather(*(n.hook(task_id) for n in self.notifiers))`:
\* gather wraps every coroutine in a task, so all of them are scheduled at once.
MultiBegin(hook, id) ==
    /\ multi.pc # "gathering"
    /\ multi.http \notin {"scheduled", "suspended"}
    /\ multi.other \notin {"scheduled", "suspended"}
    /\ multi' = [pc |-> "gathering", hook |-> hook, id |-> id,
                 http |-> "scheduled", other |-> "scheduled"]
    /\ UNCHANGED <<webhook_configs, dispatched, status, now, validation, calls, seqs, started, overlap, last>>

\* first step of the gathered HttpNotifier hook: it runs up to its first await or to its end
MultiHttpStep ==
    /\ multi.http = "scheduled"
    /\ CASE multi.hook = "add_task" ->
              AddTask(multi.id) /\ multi' = [multi EXCEPT !.http = "done"]
         [] multi.hook = "remove_task" ->
              RemoveTask(multi.id) /\ multi' = [multi EXCEPT !.http = "done"]
         [] multi.hook = "notify_queue_positions" ->
              NotifyQueuePositions /\ multi' = [multi EXCEPT !.http = "done"]
         [] multi.hook = "notify_task_subscribers" ->
              /\ NotifyEnter(MultiCall, multi.id)
              /\ multi' = [multi EXCEPT !.http =
                              IF SkipNotify(multi.id) THEN "done" ELSE "suspended"]

\* first step of the other backend's hook: it suspends, finishes or raises
MultiOtherStep(to) ==
    /\ multi.other = "scheduled"
    /\ to \in {"suspended", "done", "raised"}
    /\ multi' = [multi EXCEPT !.other = to]
    /\ UNCHANGED <<webhook_configs, dispatched, status, now, validation, calls, seqs, started, overlap, last>>

\* the other backend's hook resumes and finishes or raises
MultiOtherResume(to) ==
    /\ multi.other = "suspended"
    /\ to \in {"done", "raised"}
    /\ multi' = [multi EXCEPT !.other = to]
    /\ UNCHANGED <<webhook_configs, dispatched, status, now, validation, calls, seqs, started, overlap, last>>

ChildStates == {multi.http, multi.other}

\* mutant of MultiReturn: the hook returns once every child has been started
MultiReturn_WhenStarted ==
    /\ multi.pc = "gathering"
    /\ ChildStates \subseteq {"suspended", "done"}
    /\ multi' = [multi EXCEPT !.pc = "returned"]
    /\ UNCHANGED <<webhook_configs, dispatched, status, now, validation, calls, seqs, started, overlap, last>>

\* gather's result is set when every child is done: the hook returns
MultiReturn ==
    /\ multi.pc = "gathering"
    /\ ChildStates = {"done"}
    /\ multi' = [multi EXCEPT !.pc = "returned"]
    /\ UNCHANGED <<webhook_configs, dispatched, status, now, validation, calls, seqs, started, overlap, last>>

\* gather (return_exceptions=False) raises the first exception of a child to the awaiting
\* hook as soon as that child is done; the other children are not cancelled.  Every child
\* was put on the ready queue before the failing child ran, so each has run its first step.
MultiRaise ==
    /\ multi.pc = "gathering"
    /\ "raised" \in ChildStates
    /\ "scheduled" \notin ChildStates
    /\ multi' = [multi EXCEPT !.pc = "raised"]
    /\ UNCHANGED <<webhook_configs, dispatched, status, now, validation, calls, seqs, started, overlap, last>>

(* --------------------- the notifier specification ---------------------- *)
\* the caller's coroutines are interchangeable: a new call takes the first idle one
FirstIdle(c) == c = "c1" \/ calls["c1"].pc # "idle"

Next ==
    \/ \E id \in LifecycleTasks : AddTask(id) /\ UNCHANGED multi
    \/ \E id \in LifecycleTasks : RemoveTask(id) /\ UNCHANGED multi
    \/ \E id \in LifecycleTasks, cfg \in {None} \cup {Some(c) : c \in LifecycleConfigs} :
          RegisterWebhook(id, cfg) /\ UNCHANGED multi
    \/ NotifyQueuePositions /\ UNCHANGED multi
    \/ \E c \in DirectCalls, id \in LifecycleTasks : FirstIdle(c) /\ NotifyBegin(c, id)
    \/ \E c \in DirectCalls : NotifyResume(c)
    \/ \E i \in 1..MaxSeqs : DispatchStart(i)
    \/ \E i \in 1..MaxSeqs, r \in LifecycleResponses : HttpOutcome(i, r)
    \/ \E i \in 1..MaxSeqs : SleepDone(i)
    \/ \E id \in LifecycleTasks, s \in LifecycleStatuses : SetStatus(id, s)

Spec == Init /\ [][Next]_vars

(* --------------------- the MultiNotifier specification ----------------- *)
\* The orchestrator drives the hooks through the MultiNotifier; one more caller notifies
\* the HttpNotifier directly.
\* the inputs the MultiNotifier specification draws
MultiConfigs == {c \in LifecycleConfigs : c.max_retries = 1}
MultiResponses == {500}

NextMulti ==
    \/ \E id \in LifecycleTasks, cfg \in {None} \cup {Some(c) : c \in MultiConfigs} :
          RegisterWebhook(id, cfg) /\ UNCHANGED multi
    \/ \E id \in LifecycleTasks, s \in LifecycleStatuses : SetStatus(id, s)
    \/ \E id \in LifecycleTasks : NotifyBegin("c1", id)
    \/ \E c \in {"c1", MultiCall} : NotifyResume(c)
    \/ \E i \in 1..MaxSeqs : DispatchStart(i)
    \/ \E i \in 1..MaxSeqs, r \in MultiResponses : HttpOutcome(i, r)
    \/ \E i \in 1..MaxSeqs : SleepDone(i)
    \/ \E hook \in Hooks, id \in LifecycleTasks : MultiBegin(hook, id)
    \/ MultiHttpStep
    \/ \E to \in {"suspended", "done", "raised"} : MultiOtherStep(to)
    \/ \E to \in {"done", "raised"} : MultiOtherResume(to)
    \/ MultiReturn
    \/ MultiRaise

SpecMulti == Init /\ [][NextMulti]_vars

(* --------------------- one delivery sequence --------------------------- *)
\* _dispatch(task_id, config, payload) for every configuration and payload: the state right
\* after notify_task_subscribers created the coroutine (lines 49-51).
InitDispatch ==
    \E id \in Tasks, config \in WebhookConfig, st \in {x \in Statuses : IsCompleted(x)} :
       /\ webhook_configs = [t \in {id} |-> config]
       /\ dispatched = {id}
       /\ status = [t \in Tasks |-> IF t = id THEN st ELSE "pending"]
       /\ now = 0
       /\ calls = [c \in Calls |-> IdleCall]
       /\ seqs = <<NewSeq(id, config, [task_id |-> id, status |-> st])>>
       /\ started = [t \in Tasks |-> IF t = id THEN 1 ELSE 0]
       /\ overlap = [t \in Tasks |-> FALSE]
       /\ last = [id |-> id, exit |-> "dispatched", via |-> "direct"]
       /\ multi = IdleMulti
    /\ validation = NoValidation

NextDispatch ==
    \/ DispatchStart(1)
    \/ \E r \in Responses : HttpOutcome(1, r)
    \/ SleepDone(1)
    \/ Tick

SpecDispatch == InitDispatch /\ [][NextDispatch]_vars

(* --------------------- URL validation ---------------------------------- *)
\* validate_webhook_url(url, allowed_hosts, allowed_schemes) returns or raises
Validate ==
    /\ validation.pc = "args"
    /\ validation' = [validation EXCEPT
                         !.pc = "function",
                         !.result = ValidateWebhookUrl(validation.url, validation.allowed_hosts,
                                                       validation.allowed_schemes)]
    /\ UNCHANGED <<webhook_configs, dispatched, status, now, calls, seqs, started, overlap, last,
                   multi>>

\* WebhookOverride(url=...).validate_against(allowed_hosts, allowed_schemes): url is an
\* AnyHttpUrl; it returns self ("ok") or raises what validate_webhook_url raises
ValidateAgainst ==
    /\ validation.pc = "args"
    /\ validation.url \in HttpUrls
    /\ validation' = [validation EXCEPT
                         !.pc = "override",
                         !.result = ValidateWebhookUrl(validation.url, validation.allowed_hosts,
                                                       validation.allowed_schemes)]
    /\ UNCHANGED <<webhook_configs, dispatched, status, now, calls, seqs, started, overlap, last,
                   multi>>

\* every URL and every pair of allow-lists as the arguments of one call
InitValidate ==
    /\ webhook_configs = [t \in {} |-> None]
    /\ dispatched = {}
    /\ status = [t \in Tasks |-> "pending"]
    /\ now = 0
    /\ calls = [c \in Calls |-> IdleCall]
    /\ seqs = <<>>
    /\ started = [t \in Tasks |-> 0]
    /\ overlap = [t \in Tasks |-> FALSE]
    /\ last = [id |-> "t1", exit |-> "none", via |-> "direct"]
    /\ multi = IdleMulti
    /\ \E url \in Urls, hosts \in AllowedHosts, schemes \in AllowedSchemes :
          validation = [pc |-> "args", url |-> url, allowed_hosts |-> hosts,
                        allowed_schemes |-> schemes, result |-> ""]

NextValidate ==
    \/ Validate
    \/ ValidateAgainst

SpecValidate == InitValidate /\ [][NextValidate]_vars

(* --------------------- two tasks --------------------------------------- *)
\* The lifecycle of two tasks through one caller: registrations, task id reuse, removal,
\* completion, notifications and the delivery sequences they start, each up to its first
\* request (the responses are pending).
NextTwo ==
    \/ \E id \in Tasks : AddTask(id) /\ UNCHANGED multi
    \/ \E id \in Tasks : RemoveTask(id) /\ UNCHANGED multi
    \/ \E id \in Tasks, cfg \in {None} \cup {Some(c) : c \in LifecycleConfigs} :
          RegisterWebhook(id, cfg) /\ UNCHANGED multi
    \/ \E id \in Tasks : NotifyBegin("c1", id)
    \/ NotifyResume("c1")
    \/ \E i \in 1..MaxSeqs : DispatchStart(i)
    \/ \E id \in Tasks : SetStatus(id, "success")

SpecTwo == Init /\ [][NextTwo]_vars

(* --------------------- events around a sequence in flight -------------- *)
\* The state right after notify_task_subscribers("t1") created the sequence of t1 (lines
\* 49-51), with t2 registered and completed; then the sequence runs while the clock
\* advances, t1 is registered again, removed and resubmitted, the tasks change status in
\* the orchestrator, and t2 is notified and delivered.
InitInFlight ==
    \E config \in LifecycleConfigs :
       /\ webhook_configs = [t \in Tasks |-> config]
       /\ dispatched = {"t1"}
       /\ status = [t \in Tasks |-> "success"]
       /\ now = 0
       /\ calls = [c \in Calls |-> IdleCall]
       /\ seqs = <<NewSeq("t1", config, [task_id |-> "t1", status |-> "success"])>>
       /\ started = [t \in Tasks |-> IF t = "t1" THEN 1 ELSE 0]
       /\ overlap = [t \in Tasks |-> FALSE]
       /\ last = [id |-> "t1", exit |-> "dispatched", via |-> "direct"]
       /\ multi = IdleMulti
       /\ validation = NoValidation

NextInFlight ==
    \/ \E i \in 1..MaxSeqs : DispatchStart(i)
    \/ \E i \in 1..MaxSeqs, r \in LifecycleResponses : HttpOutcome(i, r)
    \/ \E i \in 1..MaxSeqs : SleepDone(i)
    \/ Tick
    \/ \E cfg \in {None} \cup {Some(c) : c \in LifecycleConfigs} :
          RegisterWebhook("t1", cfg) /\ UNCHANGED multi
    \/ RemoveTask("t1") /\ UNCHANGED multi
    \/ AddTask("t1") /\ UNCHANGED multi
    \/ \E id \in Tasks, s \in LifecycleStatuses : SetStatus(id, s)
    \/ NotifyBegin("c1", "t2")
    \/ NotifyResume("c1")

SpecInFlight == InitInFlight /\ [][NextInFlight]_vars

(* --------------------- fair scheduling --------------------------------- *)
\* The event loop runs every ready coroutine: a created _dispatch task gets its first
\* step, every request ends in a response or an exception (timeout=10.0 bounds it) and
\* every asyncio.sleep returns.
FairDispatch ==
    \A i \in 1..MaxSeqs :
       /\ WF_vars(DispatchStart(i))
       /\ WF_vars(\E r \in LifecycleResponses : HttpOutcome(i, r))
       /\ WF_vars(SleepDone(i))

SpecFair == InitInFlight /\ [][NextInFlight]_vars /\ FairDispatch

(* ============================== claims ================================= *)
Terminal(id) == status[id] \in {"success", "failure"}
SeqsOf(id) == {i \in 1..Len(seqs) : seqs[i].task = id}
\* the step is the resumption of call c after a lookup that did not raise
LookupReturned(c) == NotifyResume(c) /\ last'.exit # "lookup_failed"

\* C1: notify_task_subscribers calls of a task made one after another (never two of them
\* suspended in the lookup together) start at most one delivery sequence between two
\* add_task/remove_task of the task; the first call whose lookup returns the terminal task
\* starts it, and a call entered while the task is marked dispatched awaits no lookup and
\* starts nothing, whatever became of the first sequence.
C1_SequentialNotifyStartsOnce ==
    [][ /\ \A id \in Tasks : ~overlap'[id] => started'[id] <= 1
        /\ \A c \in Calls :
              LookupReturned(c) /\ Terminal(calls[c].id) /\ started[calls[c].id] = 0
              => /\ started'[calls[c].id] = 1
                 /\ Len(seqs') = Len(seqs) + 1
                 /\ seqs'[Len(seqs')].task = calls[c].id
                 /\ calls[c].id \in dispatched'
        /\ \A c \in Calls, id \in Tasks :
              NotifyEnter(c, id) /\ id \in dispatched
              => calls' = calls /\ seqs' = seqs /\ dispatched' = dispatched
      ]_vars

\* C1 witness: the only sequence of the period is exhausted and a later call was skipped
C1_Witness ==
    \E id \in Tasks :
       /\ id \in DOMAIN webhook_configs /\ Terminal(id) /\ ~overlap[id]
       /\ started[id] = 1 /\ Len(seqs) = 1
       /\ seqs[1].task = id /\ seqs[1].pc = "exhausted"
       /\ last.id = id /\ last.exit = "already_dispatched"

\* C2: whatever the interleaving of notify_task_subscribers calls of a task, at most one
\* delivery sequence is started for it between two add_task/remove_task of the task.
C2_AtMostOneSequencePerPeriod == \A id \in Tasks : started[id] <= 1

\* C3: a notify_task_subscribers call entered while no configuration is stored for the task
\* awaits no orchestrator lookup, creates no delivery sequence and leaves the configuration
\* map and the dispatched set unchanged, whatever the status of the task; no configuration
\* is stored after remove_task, and a registration of None stores none.
C3_NoConfigNotifyIsNoOp ==
    [][ /\ \A c \in Calls, id \in Tasks :
              NotifyEnter(c, id) /\ id \notin DOMAIN webhook_configs
              => /\ calls' = calls
                 /\ seqs' = seqs
                 /\ webhook_configs' = webhook_configs
                 /\ dispatched' = dispatched
        /\ \A id \in Tasks : RemoveTask(id) => id \notin DOMAIN webhook_configs'
        /\ \A id \in Tasks : RegisterWebhook(id, None) => webhook_configs' = webhook_configs
      ]_vars

\* C3 witness: a call for a terminal task without configuration has returned, nothing started
C3_Witness ==
    \E id \in Tasks :
       /\ id \notin DOMAIN webhook_configs /\ Terminal(id)
       /\ last.id = id /\ last.exit = "no_config"
       /\ seqs = <<>> /\ dispatched = {} /\ \A c \in Calls : calls[c].pc = "idle"

\* C4: a notify_task_subscribers call of a registered task whose lookup returns a task that
\* is not terminal creates no delivery sequence and leaves the dispatched set as it was;
\* a call entered for a registered, not dispatched task awaits the lookup, and when the
\* lookup returns the terminal task the call marks it dispatched and creates the sequence.
C4_NotTerminalThenDelivers ==
    [][ /\ \A c \in Calls :
              NotifyResume(c) /\ ~Terminal(calls[c].id)
              => seqs' = seqs /\ dispatched' = dispatched /\ started' = started
        /\ \A c \in Calls, id \in Tasks :
              NotifyEnter(c, id) /\ id \in DOMAIN webhook_configs /\ id \notin dispatched
              => calls'[c].pc = "lookup" /\ calls'[c].id = id
        /\ \A c \in Calls :
              LookupReturned(c) /\ Terminal(calls[c].id)
              => /\ calls[c].id \in dispatched'
                 /\ seqs' = Append(seqs, seqs'[Len(seqs')])
                 /\ seqs'[Len(seqs')].task = calls[c].id
                 /\ seqs'[Len(seqs')].pc = "created"
      ]_vars

\* C4 witness: a call found the registered task not terminal, nothing is marked or started,
\* and the task has become terminal since
C4_Witness ==
    \E id \in Tasks :
       /\ id \in DOMAIN webhook_configs /\ Terminal(id)
       /\ last.id = id /\ last.exit = "not_completed"
       /\ id \notin dispatched /\ SeqsOf(id) = {} /\ started[id] = 0

\* a response status in [200, 300)
Is2xx(r) == r \in 200..299

\* C5: a delivery sequence makes at most max_retries + 1 requests; a 2xx response is its
\* last outcome and ends it delivered with no further request; a sequence ends exhausted
\* exactly when max_retries + 1 requests were made and each one failed (another status or
\* a transport failure), and it makes no request after that.
C5_AttemptsBounded ==
    \A i \in 1..Len(seqs) :
       LET s == seqs[i]
           n == s.config.max_retries + 1
           done == Len(s.outcomes)
       IN /\ Len(s.sent) <= n
          /\ \A k \in 1..done : Is2xx(s.outcomes[k]) => k = done
          /\ (done > 0 /\ Is2xx(s.outcomes[done])) <=> s.pc = "delivered"
          /\ s.pc = "delivered" => Len(s.sent) = done
          /\ (done = n /\ \A k \in 1..done : ~Is2xx(s.outcomes[k])) <=> s.pc = "exhausted"
          /\ s.pc = "exhausted" => Len(s.sent) = n

\* C5 witness: max_retries = 2 and three failed requests, a status and transport failures
C5_Witness ==
    /\ Len(seqs) = 1
    /\ seqs[1].config.max_retries = 2
    /\ seqs[1].pc = "exhausted"
    /\ Len(seqs[1].sent) = 3
    /\ seqs[1].outcomes = <<500, Exc, 300>>

\* C6: after failed attempt i (from zero) with attempts remaining the sequence sleeps
\* backoff_factor * 2^i seconds; request i+1 is made only after outcome i was observed and
\* that sleep was entered and left; no sleep follows the last attempt or a success.
C6_BackoffSchedule ==
    \A i \in 1..Len(seqs) :
       LET s == seqs[i]
           n == s.config.max_retries + 1
       IN /\ \A k \in 1..Len(s.sleeps) : s.sleeps[k] = s.config.backoff_factor * Pow2(k - 1)
          /\ s.pc = "awaiting" =>
                /\ Len(s.sent) = s.attempt + 1
                /\ Len(s.outcomes) = s.attempt
                /\ Len(s.sleeps) = s.attempt
          /\ s.pc = "sleeping" =>
                /\ Len(s.sent) = s.attempt + 1
                /\ Len(s.outcomes) = s.attempt + 1
                /\ Len(s.sleeps) = s.attempt + 1
                /\ ~Is2xx(s.outcomes[s.attempt + 1])
                /\ s.attempt + 1 < n
          /\ s.pc \in {"delivered", "exhausted"} =>
                /\ Len(s.sent) = Len(s.outcomes)
                /\ Len(s.sleeps) = Len(s.outcomes) - 1

\* C6 witness: max_retries = 2, backoff_factor = 1: sleeps of 1 and 2, none after the third
C6_Witness ==
    /\ Len(seqs) = 1
    /\ seqs[1].config.max_retries = 2 /\ seqs[1].config.backoff_factor = 1
    /\ seqs[1].pc = "exhausted"
    /\ Len(seqs[1].sent) = 3
    /\ seqs[1].sleeps = <<1, 2>>

\* C7: when a hook of the MultiNotifier has given control back to its caller, by returning
\* or by raising the failure of one backend, the same hook of every backend has run to
\* completion.
C7_AllBackendsCompleteBeforeReturn ==
    multi.pc \in {"returned", "raised"} =>
        /\ multi.http \in {"done", "raised"}
        /\ multi.other \in {"done", "raised"}

\* C8: no hook of the MultiNotifier raises to its caller, whatever fails in a backend.
C8_HooksNeverRaise == multi.pc # "raised"

\* C9: the step of notify_task_subscribers that creates the delivery sequence also ends the
\* call (and completes the hook gathered by the MultiNotifier) while the sequence has made
\* no request; a call waits for nothing but the orchestrator lookup, and its resumption
\* from the lookup is possible in every state of the delivery sequences.
C9_NotifyReturnsWithoutDelivery ==
    [][ /\ \A c \in Calls :
              NotifyDispatch(c)
              => /\ calls'[c].pc = "idle"
                 /\ c = MultiCall => multi'.http = "done"
                 /\ seqs'[Len(seqs')].pc = "created"
                 /\ seqs'[Len(seqs')].sent = <<>>
        /\ \A c \in Calls : calls'[c].pc \in {"idle", "lookup"}
        /\ \A c \in Calls : calls[c].pc = "lookup" => ENABLED NotifyResume(c)
        /\ multi.http = "suspended" => calls[MultiCall].pc = "lookup"
      ]_vars

\* C9 witness: the MultiNotifier's notify_task_subscribers has returned, its HttpNotifier
\* hook created a sequence, and that sequence has not run yet
C9_Witness ==
    /\ multi.pc = "returned" /\ multi.hook = "notify_task_subscribers"
    /\ last.exit = "dispatched" /\ last.via = "multi"
    /\ Len(seqs) >= 1
    /\ seqs[Len(seqs)].pc = "created" /\ seqs[Len(seqs)].sent = <<>>
    /\ \A c \in Calls : calls[c].pc = "idle"

\* C10: every request of a sequence carries Content-Type: application/json, the timestamp
\* taken when the sequence started as X-Docling-Timestamp and, with a secret, the computed
\* X-Docling-Signature, whatever keys the configured headers contain.
C10_GeneratedHeadersWin ==
    \A i \in 1..Len(seqs) : \A k \in 1..Len(seqs[i].sent) :
       LET s == seqs[i]
           h == s.sent[k].headers
       IN /\ {"Content-Type", "X-Docling-Timestamp"} \subseteq DOMAIN h
          /\ h["Content-Type"] = Plain("application/json")
          /\ h["X-Docling-Timestamp"] = Plain(s.timestamp)
          /\ SecretSet(s.config) =>
                /\ "X-Docling-Signature" \in DOMAIN h
                /\ h["X-Docling-Signature"] = HmacHex(s.config.secret[1], s.timestamp, s.body)

\* C11: every request of a sequence carries X-Docling-Signature exactly when the secret of
\* its configuration is not null, and then the value is the HMAC of "<timestamp>.<body>"
\* under that secret, with the timestamp and the body the request sends.
C11_SignatureIffSecret ==
    \A i \in 1..Len(seqs) : \A k \in 1..Len(seqs[i].sent) :
       LET s == seqs[i]
           r == s.sent[k]
           h == r.headers
       IN /\ ("X-Docling-Signature" \in DOMAIN h) <=> (s.config.secret # None)
          /\ (s.config.secret # None /\ "X-Docling-Signature" \in DOMAIN h) =>
                /\ h["X-Docling-Signature"] = HmacHex(s.config.secret[1], s.timestamp, r.content)
                /\ h["X-Docling-Timestamp"] = Plain(s.timestamp)

\* the scheme and the host of the URL being validated
ParsedUrl == Urlparse(validation.url)
Returned == validation.pc \in {"function", "override"}
Failed == Returned /\ validation.result # "ok"

\* C12: validate_webhook_url, and validate_against which applies it, fails exactly when
\* allowed_schemes is not empty and the scheme of the URL (the empty scheme included) is
\* not in it, or allowed_hosts is not empty and the host of the URL is not in it; with both
\* lists empty every URL is accepted, and a URL whose scheme and host are listed is accepted.
C12_FailsExactlyOutsideAllowLists ==
    Returned =>
       /\ Failed <=>
             \/ validation.allowed_schemes # {}
                /\ ParsedUrl.scheme \notin validation.allowed_schemes
             \/ validation.allowed_hosts # {}
                /\ NotIn(ParsedUrl.hostname, validation.allowed_hosts)
       /\ (validation.allowed_schemes = {} /\ validation.allowed_hosts = {}) => ~Failed
       /\ ( /\ ParsedUrl.scheme \in validation.allowed_schemes
            /\ ~NotIn(ParsedUrl.hostname, validation.allowed_hosts) ) => ~Failed
       /\ ( /\ validation.url = "ftp://files.example/x"
            /\ validation.allowed_schemes = {"https"} ) => Failed

\* C12 witness: a URL without a scheme was refused under allowed_schemes = ["https"]
C12_Witness ==
    /\ validation.pc = "function"
    /\ validation.url = "hook.example/cb"
    /\ validation.allowed_schemes = {"https"}
    /\ validation.result = "scheme_not_allowed"

\* C12 as stated: the scheme test applies when the URL's scheme is not empty
C12_FailsWhenSchemeNonEmpty ==
    Returned =>
       ( Failed <=>
             \/ ParsedUrl.scheme # ""
                /\ ParsedUrl.scheme \notin validation.allowed_schemes
             \/ validation.allowed_hosts # {}
                /\ NotIn(ParsedUrl.hostname, validation.allowed_hosts) )

\* C13: a hook of the MultiNotifier schedules the same hook of every held backend with its
\* task id; a backend's hook is started once per call (nothing but a new call makes it
\* startable again) and the HttpNotifier's hook acts on the task id of the call; either
\* backend's hook can run while the other is suspended; the hook returns only in a state
\* where the hook of every backend has finished.
C13_EveryBackendOnceThenReturn ==
    [][ /\ \A hook \in Hooks, id \in Tasks :
              MultiBegin(hook, id)
              => multi' = [pc |-> "gathering", hook |-> hook, id |-> id,
                           http |-> "scheduled", other |-> "scheduled"]
        /\ ( \/ multi.http # "scheduled" /\ multi'.http = "scheduled"
             \/ multi.other # "scheduled" /\ multi'.other = "scheduled" )
           => multi.pc # "gathering" /\ multi'.pc = "gathering"
        /\ multi.pc = "gathering" /\ multi'.pc = "gathering"
           => multi'.hook = multi.hook /\ multi'.id = multi.id
        /\ MultiHttpStep
           => /\ multi'.http \in {"suspended", "done"}
              /\ multi.hook = "add_task" => dispatched' = dispatched \ {multi.id}
              /\ multi.hook = "remove_task" =>
                    /\ dispatched' = dispatched \ {multi.id}
                    /\ multi.id \notin DOMAIN webhook_configs'
              /\ multi.hook = "notify_task_subscribers" =>
                    \/ calls'[MultiCall].pc = "lookup" /\ calls'[MultiCall].id = multi.id
                    \/ last'.id = multi.id /\ last'.via = "multi"
        /\ multi.other = "scheduled" => ENABLED MultiOtherStep("suspended")
        /\ multi.other = "suspended" => ENABLED MultiOtherResume("done")
        /\ multi.http = "suspended" => ENABLED NotifyResume(MultiCall)
        /\ multi.http = "scheduled" /\ multi.hook # "notify_task_subscribers"
           => ENABLED MultiHttpStep
        /\ multi.pc # "returned" /\ multi'.pc = "returned"
           => /\ multi.pc = "gathering"
              /\ multi.http = "done" /\ multi.other = "done"
              /\ multi'.http = "done" /\ multi'.other = "done"
      ]_vars

\* C13 witness: notify_task_subscribers of the MultiNotifier has returned after its
\* HttpNotifier hook was suspended in the lookup of a task that was not completed
C13_Witness ==
    /\ multi.pc = "returned" /\ multi.hook = "notify_task_subscribers"
    /\ multi.http = "done" /\ multi.other = "done"
    /\ last.id = multi.id /\ last.via = "multi" /\ last.exit = "not_completed"

\* a step that creates a delivery sequence for task id
StartsSequence(id) == Len(seqs') = Len(seqs) + 1 /\ seqs'[Len(seqs')].task = id

\* C14: remove_task(id) leaves id without a stored configuration and out of the dispatched
\* set, and from then on, as long as no configuration is registered for id (id is without a
\* configuration before and after the step), no step marks id dispatched or creates a
\* delivery sequence for id, whatever calls are suspended in the lookup.
C14_NothingOutlivesRemoveTask ==
    [][ \A id \in Tasks :
           /\ RemoveTask(id) => id \notin DOMAIN webhook_configs' /\ id \notin dispatched'
           /\ (id \notin DOMAIN webhook_configs /\ id \notin DOMAIN webhook_configs')
              => id \notin dispatched' /\ ~StartsSequence(id)
      ]_vars

\* the configuration stored for the task, as an Optional
Stored(id) == IF id \in DOMAIN webhook_configs THEN Some(webhook_configs[id]) ELSE None

\* C15: add_task(id) takes id out of the dispatched set and changes nothing else (the
\* configuration map, the markers of the other tasks, the calls and the sequences); so a
\* registered task is not skipped by the next notify_task_subscribers, whose call takes the
\* stored configuration into the lookup and, when the lookup returns the terminal task,
\* creates a sequence with that configuration.
C15_AddTaskClearsOnlyItsMarker ==
    [][ \A id \in Tasks :
           /\ AddTask(id)
              => /\ dispatched' = dispatched \ {id}
                 /\ \A o \in Tasks \ {id} : (o \in dispatched') <=> (o \in dispatched)
                 /\ webhook_configs' = webhook_configs
                 /\ calls' = calls /\ seqs' = seqs /\ status' = status
                 /\ id \in DOMAIN webhook_configs => ~SkipNotify(id)'
           /\ \A c \in Calls :
                 NotifyEnter(c, id) /\ ~SkipNotify(id)
                 => calls'[c] = [pc |-> "lookup", id |-> id, config |-> Stored(id)]
           /\ \A c \in Calls :
                 LookupReturned(c) /\ calls[c].id = id /\ Terminal(id)
                 => /\ StartsSequence(id)
                    /\ Some(seqs'[Len(seqs')].config) = calls[c].config
      ]_vars

\* C15 witness: after the first sequence of a task, add_task and one more notification, a
\* second sequence of the task exists with the configuration that is still stored, while
\* the other task is registered too
C15_Witness ==
    \E id \in Tasks :
       /\ DOMAIN webhook_configs = Tasks
       /\ Len(seqs) = 2 /\ seqs[1].task = id /\ seqs[2].task = id
       /\ started[id] = 1 /\ id \in dispatched
       /\ seqs[1].pc = "awaiting" /\ seqs[2].pc = "created"
       /\ Some(seqs[2].config) = Stored(id) /\ seqs[1].config = seqs[2].config
       /\ last.id = id /\ last.exit = "dispatched"

\* C16: register_webhook(id, config) with a configuration stores it for id and leaves the
\* other tasks' configurations and the dispatched set as they were; with None it changes
\* nothing; a stored configuration changes or appears by no other step; the sequence a
\* notification creates carries the configuration that was stored for the task when the
\* notify_task_subscribers call was made, and its request goes to that URL by that method.
C16_RegisterReplacesOnlyItsTask ==
    [][ \A id \in Tasks :
           /\ \A cfg \in LifecycleConfigs :
                 RegisterWebhook(id, Some(cfg))
                 => /\ Stored(id)' = Some(cfg)
                    /\ DOMAIN webhook_configs' = DOMAIN webhook_configs \cup {id}
                    /\ \A o \in DOMAIN webhook_configs \ {id} :
                          webhook_configs'[o] = webhook_configs[o]
                    /\ dispatched' = dispatched /\ calls' = calls /\ seqs' = seqs
           /\ RegisterWebhook(id, None)
              => webhook_configs' = webhook_configs /\ dispatched' = dispatched
           /\ (Stored(id)' # None /\ Stored(id)' # Stored(id))
              => RegisterWebhook(id, Stored(id)')
           /\ \A c \in Calls :
                 (calls[c].pc = "idle" /\ calls'[c].pc = "lookup" /\ calls'[c].id = id)
                 => calls'[c].config = Stored(id) /\ Stored(id) # None
           /\ \A c \in Calls :
                 (calls[c].pc = "lookup" /\ calls[c].id = id /\ StartsSequence(id))
                 => /\ calls'[c].pc = "idle"
                    /\ Some(seqs'[Len(seqs')].config) = calls[c].config
           /\ \A i \in 1..Len(seqs) :
                 DispatchStart(i)
                 => /\ seqs'[i].sent[1].url = seqs[i].config.url
                    /\ seqs'[i].sent[1].method = seqs[i].config.method
      ]_vars

\* C16 witness: the task was notified under one configuration, registered again with
\* another, resubmitted and notified: its second sequence carries the new configuration
C16_Witness ==
    \E id \in Tasks :
       /\ Len(seqs) = 2 /\ seqs[1].task = id /\ seqs[2].task = id
       /\ seqs[1].config # seqs[2].config
       /\ Some(seqs[2].config) = Stored(id)
       /\ seqs[1].pc = "awaiting" /\ seqs[2].pc = "awaiting"
       /\ seqs[2].sent[1].method = seqs[2].config.method
       /\ seqs[1].sent[1].method # seqs[2].sent[1].method

\* C17: when the lookup of a notify_task_subscribers call raises, the call ends (it is not
\* left waiting and looks up nothing again), no sequence is created and the dispatched set
\* and the configuration map stay as they were; a task that is registered and not marked
\* is then not skipped by a later call, which awaits the lookup again and, when it returns
\* the terminal task, creates the sequence.
C17_LookupFailureStartsNothing ==
    [][ \A c \in Calls :
           /\ NotifyLookupFailed(c)
              => /\ calls'[c].pc = "idle"
                 /\ seqs' = seqs /\ started' = started
                 /\ dispatched' = dispatched
                 /\ webhook_configs' = webhook_configs
                 /\ last' = Exit(c, calls[c].id, "lookup_failed")
                 /\ \A d \in Calls \ {c} : calls'[d] = calls[d]
                 /\ (Stored(calls[c].id) # None /\ calls[c].id \notin dispatched)
                    => ~SkipNotify(calls[c].id)'
           /\ calls[c].pc = "lookup" => ENABLED NotifyLookupFailed(c)
           /\ \A id \in Tasks :
                 NotifyEnter(c, id) /\ ~SkipNotify(id) => calls'[c].pc = "lookup"
           /\ (LookupReturned(c) /\ Terminal(calls[c].id))
              => StartsSequence(calls[c].id) /\ calls[c].id \in dispatched'
      ]_vars

\* C17 witness: the lookup of a call for a registered terminal task raised; the task is
\* not marked, no sequence exists and no call is in progress
C17_Witness ==
    \E id \in Tasks :
       /\ last.id = id /\ last.exit = "lookup_failed"
       /\ Stored(id) # None /\ Terminal(id)
       /\ id \notin dispatched /\ seqs = <<>> /\ started[id] = 0
       /\ \A c \in Calls : calls[c].pc = "idle"

\* the parts of a sequence its requests are made of, and its retry limit and backoff
Fixed(s) == [config |-> s.config, payload |-> s.payload, timestamp |-> s.timestamp,
             body |-> s.body, headers |-> s.headers,
             attempts |-> Attempts(s.config), backoff |-> Backoff(s.config)]

\* C18: every request a sequence has sent is the one request made of its URL, method,
\* body and headers, the headers being those built from its configuration, timestamp and
\* body; and no step changes the configuration or the payload of a sequence or, once its
\* first request is made, its timestamp, body, headers, retry limit or backoff; a step only
\* adds requests to those already sent.
C18_RequestFixedAtStart ==
    [][ \A i \in 1..Len(seqs) :
           LET s == seqs[i]
               t == seqs'[i]
           IN /\ Len(seqs') >= Len(seqs)
              /\ t.config = s.config /\ t.payload = s.payload /\ t.task = s.task
              /\ s.pc # "created" => Fixed(t) = Fixed(s)
              /\ Len(t.sent) >= Len(s.sent)
              /\ \A k \in 1..Len(s.sent) : t.sent[k] = s.sent[k]
              /\ \A k \in 1..Len(t.sent) :
                    /\ t.sent[k] = t.sent[1]
                    /\ t.sent[k] = [method |-> t.config.method, url |-> t.config.url,
                                    content |-> JsonDumps(t.payload),
                                    headers |-> BuildHeaders(t.config, t.timestamp,
                                                             JsonDumps(t.payload)),
                                    timeout |-> 10]
      ]_vars

\* C18 witness: the sequence of t1 has sent two requests with the timestamp of its start
\* although the clock has advanced, t1 was removed and left its terminal status, and the
\* sequence of t2 has made a request
C18_Witness ==
    /\ Len(seqs) = 2 /\ seqs[1].task = "t1" /\ seqs[2].task = "t2"
    /\ Len(seqs[1].sent) = 2 /\ seqs[1].sent[1] = seqs[1].sent[2]
    /\ seqs[1].timestamp = "0" /\ now = 1
    /\ Stored("t1") = None /\ ~Terminal("t1")
    /\ Len(seqs[2].sent) >= 1 /\ seqs[2].timestamp = "1"

\* the state a sequence is in after the response r, by its own configuration and history
AfterOutcome(s, r) ==
    IF Is2xx(r) THEN "delivered"
    ELSE IF Len(s.outcomes) + 1 < s.config.max_retries + 1 THEN "sleeping"
    ELSE "exhausted"

\* C19: whatever the other sequences are doing, a created sequence can start, a sequence
\* awaiting a response can receive any response and a sleeping sequence can wake; a step
\* of one sequence leaves every other sequence as it was; a registered, completed task
\* that is not marked can be notified and its sequence created while another sequence is
\* in flight; and where a response leaves a sequence depends on that sequence's own
\* configuration and number of attempts only.
C19_SequencesIndependent ==
    [][ /\ \A i \in 1..Len(seqs) :
              /\ seqs[i].pc = "created" => ENABLED DispatchStart(i)
              /\ seqs[i].pc = "awaiting" =>
                    \A r \in LifecycleResponses : ENABLED HttpOutcome(i, r)
              /\ seqs[i].pc = "sleeping" => ENABLED SleepDone(i)
              /\ seqs'[i] # seqs[i] =>
                    \A j \in 1..Len(seqs) \ {i} : seqs'[j] = seqs[j]
              /\ \A r \in LifecycleResponses :
                    HttpOutcome(i, r) =>
                       /\ seqs'[i].pc = AfterOutcome(seqs[i], r)
                       /\ seqs'[i].outcomes = Append(seqs[i].outcomes, r)
              /\ Len(seqs[i].sent) <= seqs[i].config.max_retries + 1
        /\ \A id \in Tasks :
              ( /\ Stored(id) # None /\ id \notin dispatched /\ Terminal(id)
                /\ calls["c1"].pc = "idle" /\ Len(seqs) < MaxSeqs )
              => ENABLED (NotifyBegin("c1", id) /\ calls'["c1"].pc = "lookup")
        /\ (calls["c1"].pc = "lookup" /\ Terminal(calls["c1"].id))
           => ENABLED (NotifyDispatch("c1") /\ StartsSequence(calls["c1"].id))
      ]_vars

\* C19 witness: the sequence of t1 is still waiting for its first response while the
\* sequence of t2, created after it, has made its two attempts and is exhausted
C19_Witness ==
    /\ Len(seqs) = 2 /\ seqs[1].task = "t1" /\ seqs[2].task = "t2"
    /\ seqs[1].pc = "awaiting" /\ seqs[1].outcomes = <<>>
    /\ seqs[2].config.max_retries = 1
    /\ seqs[2].pc = "exhausted" /\ seqs[2].outcomes = <<500, 500>>
    /\ Len(seqs[2].sent) = 2

Ended(s) == s.pc \in {"delivered", "exhausted"}

\* C20: with every ready coroutine run, every request answered and every sleep returning,
\* each sequence that was created eventually ends, delivered after a 2xx response or
\* exhausted after max_retries + 1 failed attempts, and stays ended; the step that
\* exhausts a sequence changes neither the configuration map, the dispatched set, the
\* task statuses nor the calls in progress, and creates no sequence.
C20_EverySequenceEnds ==
    /\ \A i \in 1..MaxSeqs : [](Len(seqs) >= i => <>[](Len(seqs) >= i /\ Ended(seqs[i])))
    /\ [](\A i \in 1..Len(seqs) :
             /\ seqs[i].pc = "delivered" => Is2xx(seqs[i].outcomes[Len(seqs[i].outcomes)])
             /\ seqs[i].pc = "exhausted" =>
                   /\ Len(seqs[i].outcomes) = seqs[i].config.max_retries + 1
                   /\ \A k \in 1..Len(seqs[i].outcomes) : ~Is2xx(seqs[i].outcomes[k]))
    /\ [][ \A i \in 1..Len(seqs) :
              (seqs[i].pc # "exhausted" /\ seqs'[i].pc = "exhausted")
              => /\ webhook_configs' = webhook_configs
                 /\ dispatched' = dispatched
                 /\ status' = status
                 /\ calls' = calls
                 /\ Len(seqs') = Len(seqs)
                 /\ \A j \in 1..Len(seqs) \ {i} : seqs'[j] = seqs[j]
      ]_vars

\* C20 witness: a sequence with max_retries = 1 is exhausted after two failed attempts and
\* its task is still registered and marked dispatched
C20_Witness ==
    \E i \in 1..Len(seqs) :
       /\ seqs[i].pc = "exhausted" /\ seqs[i].config.max_retries = 1
       /\ seqs[i].outcomes = <<500, 500>>
       /\ Stored(seqs[i].task) # None /\ seqs[i].task \in dispatched

====
